---- MODULE Spec2Model ----
(***************************************************************************)
(* Cash reconciliation core of the FinBuddy backend:                       *)
(*   - the transaction classifier and compute_cash_position                *)
(*     (app/services/cash_reconciliation_service.py),                      *)
(*   - the endpoints that write transactions                               *)
(*     (app/api/v1/endpoints/transactions.py, cash_check.py),              *)
(*   - the nightly_cash_check task (app/services/tasks.py).                *)
(*                                                                         *)
(* Conventions.  An Optional[T] value is <<>> for None and <<v>> for v.    *)
(* Text is a TLA+ string.  Amounts are whole currency units (the floats    *)
(* of the source hold them exactly).  Timestamps count ticks, with         *)
(* TicksPerDay ticks to a day.  A table is the bag of its rows without     *)
(* their primary keys.                                                     *)
(***************************************************************************)
EXTENDS Bags, FiniteSets, Integers, Sequences, TLC

VARIABLES
    transactions,   \* table "transactions": bag of rows
    notifications,  \* table "notifications": committed rows, in commit order
    now,            \* datetime.utcnow(), in ticks
    position,       \* last dict returned to a direct caller of compute_cash_position
    suggested,      \* last list returned to a direct caller of suggest_likely_cash_expenses
    response,       \* last response of the /cash-check endpoints to the client under watch
    pc,             \* nightly_cash_check: "idle", "loop", "suggest", "commit", "done"
    users,          \* nightly_cash_check: the list `users`
    idx,            \* nightly_cash_check: number of users the for loop has finished
    cur,            \* nightly_cash_check: `position` of the user being processed
    staged,         \* nightly_cash_check: objects db.add()ed to the open session
    notifications_created, \* nightly_cash_check: the counter
    result,         \* nightly_cash_check: the dict the task returned
    run,            \* number of the nightly run (0 before the first)
    log             \* history of the current run: what was computed, who raised

vars == <<transactions, notifications, now, position, suggested, response, pc, users, idx, cur,
          staged, notifications_created, result, run, log>>

jobvars == <<pc, users, idx, cur, staged, notifications_created, result, run, log>>

-----------------------------------------------------------------------------
(* Bounds *)

TicksPerDay == 2        \* resolution of the clock
MaxTx == 4              \* rows in "transactions" when compute_cash_position is explored
MaxJobTx == 3           \* rows users add while the nightly job is explored
MaxSugTx == 2           \* rows added while suggest_likely_cash_expenses is explored
MaxRuns == 1            \* nightly runs explored
MaxApiTx == 1           \* rows added while the /cash-check endpoints are explored
MaxNights == 2          \* nightly runs explored night after night
MaxDays == 2            \* days the clock advances over those nights
MaxNightTx == 1         \* rows users add over those nights

Now0 == 100 * TicksPerDay

Days(n) == n * TicksPerDay

-----------------------------------------------------------------------------
(* Optional values and plain helpers *)

None == <<>>
Some(v) == <<v>>

\* Python `value or ""` on an Optional[str]
OrEmpty(value) == IF value = None THEN "" ELSE value[1]

Max(a, b) == IF a >= b THEN a ELSE b

UpperChars == "ABCDEFGHIJKLMNOPQRSTUVWXYZ"
LowerChars == "abcdefghijklmnopqrstuvwxyz"

CharAt(s, i) == SubSeq(s, i, i)

\* The lower-case letter of each upper-case letter
LowerOf == [c \in {CharAt(UpperChars, i) : i \in 1..Len(UpperChars)} |->
               CharAt(LowerChars, CHOOSE i \in 1..Len(UpperChars) : CharAt(UpperChars, i) = c)]

LowerChar(c) == IF c \in DOMAIN LowerOf THEN LowerOf[c] ELSE c

RECURSIVE Lower(_)
\* str.lower()
Lower(s) == IF s = "" THEN "" ELSE LowerChar(CharAt(s, 1)) \o Lower(SubSeq(s, 2, Len(s)))

\* str.strip()
Strip(s) ==
    LET keep == {i \in 1..Len(s) : CharAt(s, i) # " "}
    IN  IF keep = {} THEN ""
        ELSE SubSeq(s, CHOOSE i \in keep : \A j \in keep : i <= j,
                       CHOOSE i \in keep : \A j \in keep : i >= j)

\* Python `k in text` on strings
Contains(text, k) ==
    \E i \in 1..(Len(text) - Len(k) + 1) : SubSeq(text, i, i + Len(k) - 1) = k

\* " ".join(parts)
RECURSIVE JoinSpace(_)
JoinSpace(parts) ==
    IF Len(parts) = 0 THEN ""
    ELSE IF Len(parts) = 1 THEN parts[1]
    ELSE parts[1] \o " " \o JoinSpace(Tail(parts))

-----------------------------------------------------------------------------
(* Transaction classifier *)

_CASH_WITHDRAW_KEYWORDS == {"atm", "cash withdrawal", "withdrawal", "withdraw", "cash withdraw"}

_normalize_text(value) == Lower(Strip(OrEmpty(value)))

_has_tag(txn, tag) ==
    LET tags == IF txn.tags = None THEN <<>> ELSE txn.tags[1]
    IN  \E i \in 1..Len(tags) : tags[i] = tag

\* Slip: the type of the transaction is not looked at
_is_cash_withdrawal_any_type(txn) ==
    IF _has_tag(txn, "cash_withdrawal") THEN TRUE
    ELSE LET text == JoinSpace(<<_normalize_text(txn.description),
                                 _normalize_text(txn.merchant_name),
                                 _normalize_text(txn.merchant_category)>>)
         IN  \E k \in _CASH_WITHDRAW_KEYWORDS : Contains(text, k)

_is_cash_withdrawal(txn) ==
    IF txn.transaction_type # "debit" THEN FALSE
    ELSE IF _has_tag(txn, "cash_withdrawal") THEN TRUE
    ELSE LET text == JoinSpace(<<_normalize_text(txn.description),
                                 _normalize_text(txn.merchant_name),
                                 _normalize_text(txn.merchant_category)>>)
         IN  \E k \in _CASH_WITHDRAW_KEYWORDS : Contains(text, k)

\* Slip: the type of the transaction is not looked at
_is_cash_spend_any_type(txn) ==
    IF _has_tag(txn, "cash") \/ _has_tag(txn, "cash_spend") THEN TRUE
    ELSE LET text == JoinSpace(<<_normalize_text(txn.description),
                                 _normalize_text(txn.subcategory)>>)
         IN  Contains(text, "cash")

_is_cash_spend(txn) ==
    IF txn.transaction_type # "debit" THEN FALSE
    ELSE IF _has_tag(txn, "cash") \/ _has_tag(txn, "cash_spend") THEN TRUE
    ELSE LET text == JoinSpace(<<_normalize_text(txn.description),
                                 _normalize_text(txn.subcategory)>>)
         IN  Contains(text, "cash")

-----------------------------------------------------------------------------
(* Queries *)

One(r) == SetToBag({r})

\* All the orders in which `ORDER BY transaction_date DESC` can return the
\* rows of bag b (rows of equal date come in any order).
RECURSIVE OrderByDateDesc(_)
OrderByDateDesc(b) ==
    IF b = EmptyBag THEN {<<>>}
    ELSE LET rows == BagToSet(b)
             first == {r \in rows : \A q \in rows : r.transaction_date >= q.transaction_date}
         IN  UNION {{<<r>> \o s : s \in OrderByDateDesc(b (-) One(r))} : r \in first}

\* The rows of bag b that a WHERE clause keeps (keep: the distinct rows it admits)
Where(b, keep) == [r \in keep \cap BagToSet(b) |-> b[r]]

\* Slip: only the first row of the list is counted
SumAmount_head(txns) == IF txns = <<>> THEN 0 ELSE Head(txns).amount

\* sum(t.amount for t in txns)
RECURSIVE SumAmount(_)
SumAmount(txns) == IF txns = <<>> THEN 0 ELSE Head(txns).amount + SumAmount(Tail(txns))

-----------------------------------------------------------------------------
(* CashReconciliationService.compute_cash_position *)

\* Slip: the query without the filter on the user
PositionQuery_all_users(db, t_now, user_id, lookback_days) ==
    LET start_date == t_now - Days(lookback_days)
    IN  OrderByDateDesc(Where(db, {r \in BagToSet(db) : r.transaction_date >= start_date}))

\* Slip: the query without the filter on start_date
PositionQuery_no_start(db, t_now, user_id, lookback_days) ==
    OrderByDateDesc(Where(db, {r \in BagToSet(db) : r.user_id = user_id}))

\* The lists `txns` the query of compute_cash_position can return
PositionQuery(db, t_now, user_id, lookback_days) ==
    LET start_date == t_now - Days(lookback_days)
    IN  OrderByDateDesc(Where(db, {r \in BagToSet(db) : /\ r.user_id = user_id
                                                         /\ r.transaction_date >= start_date}))

\* Slip: the oldest withdrawal of the list instead of the latest
LastWithdrawalDate_oldest(withdrawals) ==
    IF withdrawals # <<>> THEN Some(withdrawals[Len(withdrawals)].transaction_date) ELSE None

\* withdrawals[0].transaction_date if withdrawals else None
LastWithdrawalDate(withdrawals) ==
    IF withdrawals # <<>> THEN Some(withdrawals[1].transaction_date) ELSE None

\* max(0, (now - last_withdrawal_date).days), None without a withdrawal
DaysSinceWithdrawal(t_now, last_withdrawal_date) ==
    IF last_withdrawal_date # None
    THEN Some(Max(0, (t_now - last_withdrawal_date[1]) \div TicksPerDay))
    ELSE None

\* Slip: the difference without the clamp
EstimatedUntrackedCash_unclamped(total_withdrawn, total_tracked_cash_spend) ==
    total_withdrawn - total_tracked_cash_spend

\* max(0.0, total_withdrawn - total_tracked_cash_spend)
\* Slip: the distance between the totals instead of the clamped difference
EstimatedUntrackedCash_abs(total_withdrawn, total_tracked_cash_spend) ==
    Max(total_withdrawn - total_tracked_cash_spend, total_tracked_cash_spend - total_withdrawn)

EstimatedUntrackedCash(total_withdrawn, total_tracked_cash_spend) ==
    Max(0, total_withdrawn - total_tracked_cash_spend)

\* Slip: the minimum age of the withdrawal is not compared
EligibleForNudge_ignores_minimum(estimated_untracked_cash, days_since_withdrawal, min_days_since_withdrawal) ==
    /\ estimated_untracked_cash > 0
    /\ days_since_withdrawal # None

\* The value of "eligible_for_nudge"
EligibleForNudge(estimated_untracked_cash, days_since_withdrawal, min_days_since_withdrawal) ==
    /\ estimated_untracked_cash > 0
    /\ days_since_withdrawal # None
    /\ days_since_withdrawal[1] >= min_days_since_withdrawal

\* The two partitions of the fetched list
Withdrawals(txns) == SelectSeq(txns, _is_cash_withdrawal)
CashSpends(txns) == SelectSeq(txns, _is_cash_spend)

\* The dict built from the fetched list txns
PositionOf(txns, t_now, user_id, lookback_days, min_days_since_withdrawal) ==
    LET withdrawals == Withdrawals(txns)
        cash_spends == CashSpends(txns)
        last_withdrawal_date == LastWithdrawalDate(withdrawals)
        days_since_withdrawal == DaysSinceWithdrawal(t_now, last_withdrawal_date)
        total_withdrawn == SumAmount(withdrawals)
        total_tracked_cash_spend == SumAmount(cash_spends)
        estimated_untracked_cash ==
            EstimatedUntrackedCash(total_withdrawn, total_tracked_cash_spend)
    IN  [user_id |-> user_id,
         lookback_days |-> lookback_days,
         last_withdrawal_date |-> last_withdrawal_date,
         days_since_withdrawal |-> days_since_withdrawal,
         total_withdrawn |-> total_withdrawn,
         tracked_cash_spend |-> total_tracked_cash_spend,
         estimated_untracked_cash |-> estimated_untracked_cash,
         eligible_for_nudge |->
             EligibleForNudge(estimated_untracked_cash, days_since_withdrawal,
                              min_days_since_withdrawal)]

\* The dicts compute_cash_position can return over table db at time t_now
compute_cash_position(db, t_now, user_id, lookback_days, min_days_since_withdrawal) ==
    {PositionOf(txns, t_now, user_id, lookback_days, min_days_since_withdrawal) :
        txns \in PositionQuery(db, t_now, user_id, lookback_days)}

-----------------------------------------------------------------------------
(* CashReconciliationService.suggest_likely_cash_expenses *)

\* Exact fractions stand for the floats of the probabilities
RECURSIVE GCD(_, _)
GCD(a, b) == IF b = 0 THEN a ELSE GCD(b, a % b)

Frac(n, d) == LET g == GCD(n, d) IN [num |-> n \div g, den |-> d \div g]
FracAdd(x, y) == Frac(x.num * y.den + y.num * x.den, x.den * y.den)
FracDiv(x, y) == Frac(x.num * y.den, x.den * y.num)

\* Slip: the quotient is cut instead of rounded
Round_down(a, b) == a \div b

\* Python round(a / b) for a >= 0, b > 0: to the nearest, a half to the even
Round(a, b) ==
    LET f == a \div b
        r == a % b
    IN  IF 2 * r < b THEN f
        ELSE IF 2 * r > b THEN f + 1
        ELSE IF f % 2 = 0 THEN f ELSE f + 1

Min(a, b) == IF a <= b THEN a ELSE b

\* The upper-case letter of each lower-case letter
UpperOf == [c \in {CharAt(LowerChars, i) : i \in 1..Len(LowerChars)} |->
               CharAt(UpperChars, CHOOSE i \in 1..Len(LowerChars) : CharAt(LowerChars, i) = c)]

UpperChar(c) == IF c \in DOMAIN UpperOf THEN UpperOf[c] ELSE c

IsLetter(c) == c \in DOMAIN UpperOf \/ c \in DOMAIN LowerOf

\* str.replace(old, new) for one-character old and new
RECURSIVE ReplaceChar(_, _, _)
ReplaceChar(s, old, new) ==
    IF s = "" THEN ""
    ELSE (IF CharAt(s, 1) = old THEN new ELSE CharAt(s, 1))
             \o ReplaceChar(SubSeq(s, 2, Len(s)), old, new)

\* str.title(): a letter that follows no letter is upper-cased, the others lower-cased
RECURSIVE TitleFrom(_, _)
TitleFrom(s, after_letter) ==
    IF s = "" THEN ""
    ELSE LET c == CharAt(s, 1)
         IN  (IF after_letter THEN LowerChar(c) ELSE UpperChar(c))
                 \o TitleFrom(SubSeq(s, 2, Len(s)), IsLetter(c))
Title(s) == TitleFrom(s, FALSE)

\* datetime.weekday(), up to the name of the day
Weekday(date) == (date \div TicksPerDay) % 7

\* The key of the bucket of transaction t
BucketKey(t) ==
    LET subcategory == Lower(Strip(OrEmpty(t.subcategory)))
        merchant_category == Lower(Strip(OrEmpty(t.merchant_category)))
    IN  IF subcategory # "" THEN subcategory
        ELSE IF merchant_category # "" THEN merchant_category
        ELSE "other"

\* Slip: the weekday of the target gives no extra weight
TxWeight_flat(t, target_weekday) == 10

\* The weight of transaction t, in tenths (1.6 on the target's weekday, else 1.0)
TxWeight(t, target_weekday) ==
    IF Weekday(t.transaction_date) = target_weekday THEN 16 ELSE 10

\* The keys of the dict bucket_weight, in insertion order
RECURSIVE BucketKeys(_)
BucketKeys(txns) ==
    IF txns = <<>> THEN <<>>
    ELSE LET before == BucketKeys(SubSeq(txns, 1, Len(txns) - 1))
             k == BucketKey(txns[Len(txns)])
         IN  IF \E i \in 1..Len(before) : before[i] = k THEN before ELSE Append(before, k)

\* bucket_amounts[k] and bucket_weight[k] (in tenths)
BucketAmounts(txns, k) ==
    LET mine == SelectSeq(txns, LAMBDA t : BucketKey(t) = k)
    IN  [i \in 1..Len(mine) |-> mine[i].amount]
RECURSIVE BucketWeight(_, _, _)
BucketWeight(txns, k, target_weekday) ==
    IF txns = <<>> THEN 0
    ELSE (IF BucketKey(Head(txns)) = k THEN TxWeight(Head(txns), target_weekday) ELSE 0)
             + BucketWeight(Tail(txns), k, target_weekday)

\* sum(bucket_weight.values())
RECURSIVE SumWeights(_, _)
SumWeights(keys, bucket_weight) ==
    IF keys = <<>> THEN 0 ELSE bucket_weight[Head(keys)] + SumWeights(Tail(keys), bucket_weight)

\* sorted(items, key, reverse=True): descending by key, equal keys keep their order
RECURSIVE SortedDesc(_, _)
SortedDesc(items, key) ==
    IF items = <<>> THEN <<>>
    ELSE LET rest == SortedDesc(SubSeq(items, 1, Len(items) - 1), key)
             x == items[Len(items)]
             n == Cardinality({i \in 1..Len(rest) : key[rest[i]] >= key[x]})
         IN  SubSeq(rest, 1, n) \o <<x>> \o SubSeq(rest, n + 1, Len(rest))

\* sorted(amounts): ascending
RECURSIVE Sorted(_)
Sorted(amounts) ==
    IF amounts = <<>> THEN <<>>
    ELSE LET rest == Sorted(SubSeq(amounts, 1, Len(amounts) - 1))
             x == amounts[Len(amounts)]
             n == Cardinality({i \in 1..Len(rest) : rest[i] <= x})
         IN  SubSeq(rest, 1, n) \o <<x>> \o SubSeq(rest, n + 1, Len(rest))

\* _percentile(p) for p = quarters / 4 over the sorted list amounts
_percentile(amounts, quarters) ==
    IF Len(amounts) = 1 THEN amounts[1]
    ELSE LET i == Round((Len(amounts) - 1) * quarters, 4)
         IN  amounts[Max(0, Min(i, Len(amounts) - 1)) + 1]

CashCheckSuggestion(label, subcategory, typical_amount, amount_range, probability) ==
    [label |-> label, subcategory |-> subcategory, typical_amount |-> typical_amount,
     amount_range |-> amount_range, probability |-> probability]

\* Slip: the defaults in another order
Defaults_reordered ==
    <<CashCheckSuggestion("Food", "food", 200, <<120, 350>>, Frac(28, 100)),
      CashCheckSuggestion("Groceries", "groceries", 500, <<300, 700>>, Frac(34, 100)),
      CashCheckSuggestion("Transport", "transport", 100, <<50, 200>>, Frac(22, 100)),
      CashCheckSuggestion("Misc", "misc", 150, <<80, 300>>, Frac(16, 100))>>

\* The list `defaults`
Defaults ==
    <<CashCheckSuggestion("Groceries", "groceries", 500, <<300, 700>>, Frac(34, 100)),
      CashCheckSuggestion("Food", "food", 200, <<120, 350>>, Frac(28, 100)),
      CashCheckSuggestion("Transport", "transport", 100, <<50, 200>>, Frac(22, 100)),
      CashCheckSuggestion("Misc", "misc", 150, <<80, 300>>, Frac(16, 100))>>

\* seq[:n] for n >= 0
Prefix(seq, n) == SubSeq(seq, 1, Min(n, Len(seq)))

RECURSIVE SumProbability(_)
SumProbability(suggestions) ==
    IF suggestions = <<>> THEN Frac(0, 1)
    ELSE FracAdd(Head(suggestions).probability, SumProbability(Tail(suggestions)))

\* Slip: the list is cut to its top entries and not normalised
Normalize_skipped(suggestions) == suggestions

\* The probabilities of the cut list divided by their sum
Normalize(suggestions) ==
    LET sum == SumProbability(suggestions)
        prob_sum == IF sum.num = 0 THEN Frac(1, 1) ELSE sum
    IN  [i \in 1..Len(suggestions) |->
            [suggestions[i] EXCEPT !.probability =
                FracDiv(suggestions[i].probability, prob_sum)]]

\* The lists `txns` the query and the filter of suggest_likely_cash_expenses can give
SuggestionQuery(db, user_id, target_date, history_days) ==
    LET start_date == target_date - Days(history_days)
    IN  {SelectSeq(rows, _is_cash_spend) :
            rows \in OrderByDateDesc(Where(db, {r \in BagToSet(db) :
                                                   /\ r.user_id = user_id
                                                   /\ r.transaction_type = "debit"
                                                   /\ r.transaction_date >= start_date}))}

\* The list built from the non-empty list txns
SuggestionsOf(txns, target_weekday, limit) ==
    LET keys == BucketKeys(txns)
        bucket_weight == [k \in {keys[i] : i \in 1..Len(keys)} |->
                             BucketWeight(txns, k, target_weekday)]
        total == SumWeights(keys, bucket_weight)
        total_weight == IF total = 0 THEN 10 ELSE total
        ranked == Prefix(SortedDesc(keys, bucket_weight), Max(limit, 10))
        suggestions ==
            [i \in 1..Len(ranked) |->
                LET subcat == ranked[i]
                    amounts == Sorted(BucketAmounts(txns, subcat))
                    p25 == _percentile(amounts, 1)
                    p50 == _percentile(amounts, 2)
                    p75 == _percentile(amounts, 3)
                    typical == p50
                    low == Max(0, p25)
                    high == Max(low, p75)
                IN  CashCheckSuggestion(Title(ReplaceChar(subcat, "_", " ")), subcat,
                                        typical, <<low, high>>,
                                        Frac(bucket_weight[subcat], total_weight))]
    IN  Normalize(Prefix(suggestions, limit))

\* The lists suggest_likely_cash_expenses can return over table db at time
\* t_now (target_date: None for the default)
suggest_likely_cash_expenses(db, t_now, user_id, target_date, history_days, limit) ==
    LET target == IF target_date # None THEN target_date[1] ELSE t_now
    IN  {IF txns = <<>> THEN Prefix(Defaults, limit)
         ELSE SuggestionsOf(txns, Weekday(target), limit) :
            txns \in SuggestionQuery(db, user_id, target, history_days)}

-----------------------------------------------------------------------------
(* Tables and requests *)

\* Table "users": id -> is_active
UserTable == [u0 |-> FALSE, u1 |-> TRUE, u2 |-> TRUE, u3 |-> TRUE]

\* The ids of "users" in the order of the rows
UserRows == <<"u0", "u1", "u2", "u3">>

\* Users that can authenticate (auth.py refuses an inactive user)
ApiUsers == {u \in DOMAIN UserTable : UserTable[u]}

\* A row of "transactions" (the columns the cash core and its writers touch)
Transaction(user_id, amount, transaction_type, category, subcategory, tags, description, merchant_name, source, transaction_date) ==
    [user_id |-> user_id, amount |-> amount, transaction_type |-> transaction_type,
     category |-> category, subcategory |-> subcategory, tags |-> tags,
     description |-> description, merchant_name |-> merchant_name,
     merchant_category |-> None, source |-> source,
     transaction_date |-> transaction_date]

\* A TransactionCreate body
TransactionCreate(amount, transaction_type, description, merchant_name, subcategory, tags, transaction_date) ==
    [amount |-> amount, transaction_type |-> transaction_type,
     description |-> description, merchant_name |-> merchant_name,
     transaction_date |-> transaction_date, category |-> "other",
     subcategory |-> subcategory, tags |-> tags, source |-> "manual"]

\* A QuickAddExpenseRequest body
QuickAddExpenseRequest(amount, subcategory, description, transaction_date) ==
    [amount |-> amount, subcategory |-> subcategory, description |-> description,
     transaction_date |-> transaction_date]

\* The withdrawal and the three cash expenses of test_cash_check.create_test_data
TestWithdrawal ==
    TransactionCreate(10000, "debit", Some("ATM Withdrawal"), Some("HDFC ATM"), None,
                      Some(<<"cash_withdrawal">>), Now0 - Days(5))
TestExpenses ==
    {TransactionCreate(500, "debit", Some("Groceries - cash"), None, Some("groceries"),
                       Some(<<"cash", "cash_spend">>), Now0 - Days(3)),
     TransactionCreate(200, "debit", Some("Transport - cash"), None, Some("transport"),
                       Some(<<"cash", "cash_spend">>), Now0 - Days(2)),
     TransactionCreate(300, "debit", Some("Food - cash"), None, Some("food"),
                       Some(<<"cash", "cash_spend">>), Now0 - Days(1))}

\* Bodies posted to /transactions while compute_cash_position is explored
TxRequests ==
    {TestWithdrawal} \cup TestExpenses \cup
    {\* a tagged withdrawal a day and a part ago
     TransactionCreate(5000, "debit", None, None, None,
                       Some(<<"cash_withdrawal">>), Now0 - Days(1) - 1),
     \* an untagged withdrawal, recognised by its wording
     TransactionCreate(700, "debit", Some(" Cash Withdrawal"), Some("SBI"), None,
                       Some(<<>>), Now0 - Days(4)),
     \* a credit that carries the tags and the wording
     TransactionCreate(900, "credit", Some("ATM cash reversal"), None, None,
                       Some(<<"cash_withdrawal", "cash">>), Now0 - Days(2)),
     \* a card payment
     TransactionCreate(400, "debit", Some("Coffee"), Some("Cafe"), Some("food"),
                       None, Now0 - Days(1)),
     \* a tagged withdrawal dated after now
     TransactionCreate(2000, "debit", None, None, None,
                       Some(<<"cash_withdrawal">>), Now0 + 1),
     \* a tagged withdrawal older than 30 days
     TransactionCreate(3000, "debit", None, None, None,
                       Some(<<"cash_withdrawal">>), Now0 - Days(30) - 1),
     \* rejected by the schema
     TransactionCreate(0, "debit", Some("ATM"), None, None, None, Now0)}

\* Bodies posted to /cash-check/quick-add while compute_cash_position is explored
QuickAddRequests ==
    {QuickAddExpenseRequest(600, "Groceries", None, None),
     QuickAddExpenseRequest(-250, "misc", Some("refund"), Some(Now0 - Days(2)))}

\* Arguments direct callers pass to compute_cash_position
LookbackChoices == {30}
MinDaysChoices == {3, 10}

\* Users that post while compute_cash_position is explored, and users it is called for
PosUsers == {"u1"}
PosCallUsers == {"u0", "u1"}

\* Rows of the deactivated user u0, written before the deactivation
InitialRows ==
    One(Transaction("u0", 10000, "debit", "other", None, Some(<<"cash_withdrawal">>),
                    Some("ATM Withdrawal"), None, "manual", Now0 - Days(5)))

AddedRows == BagCardinality(transactions) - BagCardinality(InitialRows)

-----------------------------------------------------------------------------
(* State after start-up *)

NoResult == None
NoLog == [computed |-> <<>>, raised |-> {}, listed |-> FALSE]

Init ==
    /\ transactions = InitialRows
    /\ notifications = <<>>
    /\ now = Now0
    /\ position = None
    /\ suggested = None
    /\ response = None
    /\ pc = "idle"
    /\ users = <<>>
    /\ idx = 0
    /\ cur = None
    /\ staged = <<>>
    /\ notifications_created = 0
    /\ result = NoResult
    /\ run = 0
    /\ log = NoLog

-----------------------------------------------------------------------------
(* Endpoints that write "transactions" *)

\* POST /transactions
create_transaction(current_user, transaction_data) ==
    /\ transaction_data.amount > 0
    /\ transactions' = transactions (+) One(
           Transaction(current_user, transaction_data.amount,
                       transaction_data.transaction_type, transaction_data.category,
                       transaction_data.subcategory, transaction_data.tags,
                       transaction_data.description, transaction_data.merchant_name,
                       transaction_data.source, transaction_data.transaction_date))
    /\ position' = None
    /\ suggested' = None
    /\ UNCHANGED <<notifications, now, jobvars>>

\* Slip: the subcategory is looked up as the client wrote it
QuickAddCategory_case_sensitive(subcategory) ==
    LET subcategory_lower == subcategory
    IN  IF subcategory_lower \in {"groceries", "food", "dining", "restaurant", "cafe"}
        THEN "essentials"
        ELSE IF subcategory_lower \in {"transport", "fuel", "parking", "taxi", "uber"}
        THEN "needs"
        ELSE IF subcategory_lower \in {"shopping", "clothing", "entertainment", "movie", "games"}
        THEN "spends"
        ELSE IF subcategory_lower \in {"bills", "utilities", "rent", "electricity", "water"}
        THEN "bills"
        ELSE "other"

\* The category quick-add derives from the subcategory
QuickAddCategory(subcategory) ==
    LET subcategory_lower == Lower(subcategory)
    IN  IF subcategory_lower \in {"groceries", "food", "dining", "restaurant", "cafe"}
        THEN "essentials"
        ELSE IF subcategory_lower \in {"transport", "fuel", "parking", "taxi", "uber"}
        THEN "needs"
        ELSE IF subcategory_lower \in {"shopping", "clothing", "entertainment", "movie", "games"}
        THEN "spends"
        ELSE IF subcategory_lower \in {"bills", "utilities", "rent", "electricity", "water"}
        THEN "bills"
        ELSE "other"

\* POST /cash-check/quick-add
quick_add_cash_expense(current_user, request) ==
    /\ transactions' = transactions (+) One(
           Transaction(current_user, request.amount, "debit",
                       QuickAddCategory(request.subcategory),
                       Some(request.subcategory),
                       Some(<<"cash", "cash_spend">>),
                       IF OrEmpty(request.description) # ""
                       THEN request.description
                       ELSE Some("Cash - " \o request.subcategory),
                       None, "manual",
                       IF request.transaction_date # None
                       THEN request.transaction_date[1] ELSE now))
    /\ position' = None
    /\ suggested' = None
    /\ UNCHANGED <<notifications, now, jobvars>>

-----------------------------------------------------------------------------
(* Exploring compute_cash_position on its own *)

PosCreate ==
    /\ AddedRows < MaxTx
    /\ \E u \in PosUsers, d \in TxRequests :
          create_transaction(u, d) /\ UNCHANGED response

PosQuickAdd ==
    /\ AddedRows < MaxTx
    /\ \E u \in PosUsers, q \in QuickAddRequests :
          quick_add_cash_expense(u, q) /\ UNCHANGED response

\* A caller awaits compute_cash_position and keeps the dict (with the
\* arguments of the call) until the table is next written
PosCompute ==
    \E u \in PosCallUsers, l \in LookbackChoices, m \in MinDaysChoices :
        \E p \in compute_cash_position(transactions, now, u, l, m) :
            /\ position' = Some([min_days_since_withdrawal |-> m, ret |-> p])
            /\ UNCHANGED <<transactions, notifications, now, suggested, response, jobvars>>

NextPos == PosCreate \/ PosQuickAdd \/ PosCompute

SpecPos == Init /\ [][NextPos]_vars

-----------------------------------------------------------------------------
(* Exploring suggest_likely_cash_expenses on its own *)

\* The row quick-add stores for user u (amount, subcategory, date)
QuickAdded(u, amount, subcategory, date) ==
    Transaction(u, amount, "debit", QuickAddCategory(subcategory), Some(subcategory),
                Some(<<"cash", "cash_spend">>), Some("Cash - " \o subcategory),
                None, "manual", date)

\* Cash expenses user u1 has quick-added over the last two weeks
SugInitialRows ==
    One(QuickAdded("u1", 100, "Groceries", Now0 - Days(8)))
        (+) One(QuickAdded("u1", 200, "Groceries", Now0 - Days(9)))
        (+) One(QuickAdded("u1", 300, "Groceries", Now0 - Days(10)))
        (+) One(QuickAdded("u1", 400, "Groceries", Now0 - Days(11)))

SugAddedRows ==
    BagCardinality(transactions) - BagCardinality(InitialRows (+) SugInitialRows)

\* Bodies posted to /transactions while suggest_likely_cash_expenses is explored
SugTxRequests ==
    {\* a cash expense recognised by the wording of its subcategory
     TransactionCreate(120, "debit", None, None, Some("Cash gifts"), None, Now0 - Days(1)),
     \* a cash expense without a subcategory, on the same day
     TransactionCreate(80, "debit", Some("auto fare"), None, None,
                       Some(<<"cash_spend">>), Now0 - Days(1)),
     \* a credit that carries the tag and the wording
     TransactionCreate(900, "credit", Some("cash back"), None, Some("food"),
                       Some(<<"cash">>), Now0 - Days(2)),
     \* a card payment
     TransactionCreate(400, "debit", Some("Coffee"), Some("Cafe"), Some("food"),
                       None, Now0 - Days(2))}

\* Bodies posted to /cash-check/quick-add while suggest_likely_cash_expenses is explored
SugQuickAddRequests ==
    {QuickAddExpenseRequest(500, "Groceries", None, Some(Now0 - Days(12))),
     \* on the weekday of now
     QuickAddExpenseRequest(50, "food", None, None),
     QuickAddExpenseRequest(350, " FOOD", Some("lunch"), Some(Now0 - Days(4))),
     \* a negative amount
     QuickAddExpenseRequest(-250, "misc", Some("refund"), Some(Now0 - Days(3))),
     \* dated after now
     QuickAddExpenseRequest(70, "bus_pass", None, Some(Now0 + Days(1))),
     \* older than 90 days
     QuickAddExpenseRequest(60, "food", None, Some(Now0 - Days(90) - 1))}

\* Arguments direct callers pass to suggest_likely_cash_expenses: pairs of
\* target_date and limit, and history_days
SugCalls ==
    ({None} \X {1, 2, 4, 5})
        \cup ({Some(Now0 - Days(7)), Some(Now0 - Days(1))} \X {2, 4})
HistoryChoices == {90}
SugUsers == {"u1"}
SugCallUsers == {"u1", "u2"}

InitSug ==
    /\ transactions = InitialRows (+) SugInitialRows
    /\ notifications = <<>>
    /\ now = Now0
    /\ position = None
    /\ suggested = None
    /\ response = None
    /\ pc = "idle"
    /\ users = <<>>
    /\ idx = 0
    /\ cur = None
    /\ staged = <<>>
    /\ notifications_created = 0
    /\ result = NoResult
    /\ run = 0
    /\ log = NoLog

SugCreate ==
    /\ SugAddedRows < MaxSugTx
    /\ \E u \in SugUsers, d \in SugTxRequests :
          create_transaction(u, d) /\ UNCHANGED response

SugQuickAdd ==
    /\ SugAddedRows < MaxSugTx
    /\ \E u \in SugUsers, q \in SugQuickAddRequests :
          quick_add_cash_expense(u, q) /\ UNCHANGED response

\* A caller awaits suggest_likely_cash_expenses and keeps the list (with the
\* arguments of the call) until the table is next written
SugSuggest ==
    \E u \in SugCallUsers, c \in SugCalls, h \in HistoryChoices :
        \E s \in suggest_likely_cash_expenses(transactions, now, u, c[1], h, c[2]) :
            /\ suggested' = Some([user_id |-> u, target_date |-> c[1], history_days |-> h,
                                  limit |-> c[2], ret |-> s])
            /\ UNCHANGED <<transactions, notifications, now, position, response, jobvars>>

NextSug == SugCreate \/ SugQuickAdd \/ SugSuggest

SpecSug == InitSug /\ [][NextSug]_vars

-----------------------------------------------------------------------------
(* nightly_cash_check *)

\* Bodies users post while the nightly job is explored
JobTxRequests ==
    {TestWithdrawal,
     \* too recent for a nudge
     TransactionCreate(5000, "debit", None, None, None,
                       Some(<<"cash_withdrawal">>), Now0 - Days(1) - 1),
     \* too small for a notification
     TransactionCreate(800, "debit", Some("ATM"), None, None, None, Now0 - Days(4))}
JobQuickAddRequests ==
    {QuickAddExpenseRequest(9500, "food", None, None)}

\* Slip: the select without the filter on is_active
ActiveUsers_everyone == UserRows

\* select(User).where(User.is_active == True), in the order of the rows
ActiveUsers == SelectSeq(UserRows, LAMBDA u : UserTable[u] = TRUE)

\* Slip: the threshold of 1000 is not applied
NudgePolicy_eligible_only(pos) == pos.eligible_for_nudge

\* The condition under which the job creates a notification
NudgePolicy(pos) == pos.eligible_for_nudge /\ pos.estimated_untracked_cash >= 1000

\* The Notification the job builds (created_in: the run that built it)
Notification(user_id, pos, suggestions, created_in) ==
    [user_id |-> user_id,
     type |-> "cash_check",
     message |-> <<pos.estimated_untracked_cash, pos.tracked_cash_spend>>,
     payload |-> [cash_position |-> pos,
                  suggestions |-> [i \in 1..Len(suggestions) |->
                      [label |-> suggestions[i].label,
                       subcategory |-> suggestions[i].subcategory,
                       typical_amount |-> suggestions[i].typical_amount,
                       amount_range |-> suggestions[i].amount_range,
                       probability |-> suggestions[i].probability]]],
     is_read |-> FALSE,
     created_in |-> created_in]

User == users[idx + 1]

Raised(u) == [log EXCEPT !.raised = @ \cup {u}]

\* The task starts for a run below max_runs: a session is opened and the
\* active users are listed
list_users(max_runs) ==
    /\ pc \in {"idle", "done"}
    /\ run < max_runs
    /\ run' = run + 1
    /\ users' = ActiveUsers
    /\ idx' = 0
    /\ cur' = None
    /\ staged' = <<>>
    /\ notifications_created' = 0
    /\ result' = NoResult
    /\ log' = [NoLog EXCEPT !.listed = TRUE]
    /\ pc' = "loop"
    /\ UNCHANGED <<transactions, notifications, now, position, suggested, response>>

\* The task starts and listing the users raises: the outer handler returns
list_users_raises(max_runs) ==
    /\ pc \in {"idle", "done"}
    /\ run < max_runs
    /\ run' = run + 1
    /\ users' = <<>>
    /\ idx' = 0
    /\ cur' = None
    /\ staged' = <<>>
    /\ notifications_created' = 0
    /\ log' = NoLog
    /\ result' = Some([success |-> FALSE, error |-> "select users"])
    /\ pc' = "done"
    /\ UNCHANGED <<transactions, notifications, now, position, suggested, response>>

nightly_list_users == list_users(MaxRuns)
nightly_list_users_raises == list_users_raises(MaxRuns)

\* Slip: a user that still has an unread cash_check notification is skipped
nightly_compute_dedupes ==
    /\ pc = "loop"
    /\ idx < Len(users)
    /\ \E pos \in compute_cash_position(transactions, now, User, 30, 3) :
          /\ log' = [log EXCEPT !.computed = (User :> pos) @@ @]
          /\ IF /\ NudgePolicy(pos)
                /\ \A i \in 1..Len(notifications) :
                       notifications[i].user_id = User => notifications[i].is_read
             THEN /\ cur' = Some(pos)
                  /\ pc' = "suggest"
                  /\ idx' = idx
             ELSE /\ cur' = None
                  /\ pc' = "loop"
                  /\ idx' = idx + 1
    /\ UNCHANGED <<transactions, notifications, now, position, suggested, response, users, staged,
                   notifications_created, result, run>>

\* Loop body, first await: the position of the next user; a user that
\* fails the policy is skipped
nightly_compute ==
    /\ pc = "loop"
    /\ idx < Len(users)
    /\ \E pos \in compute_cash_position(transactions, now, User, 30, 3) :
          /\ log' = [log EXCEPT !.computed = (User :> pos) @@ @]
          /\ IF NudgePolicy(pos)
             THEN /\ cur' = Some(pos)
                  /\ pc' = "suggest"
                  /\ idx' = idx
             ELSE /\ cur' = None
                  /\ pc' = "loop"
                  /\ idx' = idx + 1
    /\ UNCHANGED <<transactions, notifications, now, position, suggested, response, users, staged,
                   notifications_created, result, run>>

\* Slip: no try/except around the loop body, the exception reaches the
\* outer handler
nightly_compute_raises_aborts ==
    /\ pc = "loop"
    /\ idx < Len(users)
    /\ log' = Raised(User)
    /\ staged' = <<>>
    /\ result' = Some([success |-> FALSE, error |-> "user"])
    /\ pc' = "done"
    /\ UNCHANGED <<transactions, notifications, now, position, suggested, response, users, idx, cur,
                   notifications_created, run>>

\* compute_cash_position raises: caught, logged, next user
nightly_compute_raises ==
    /\ pc = "loop"
    /\ idx < Len(users)
    /\ log' = Raised(User)
    /\ idx' = idx + 1
    /\ UNCHANGED <<transactions, notifications, now, position, suggested, response, pc, users, cur, staged,
                   notifications_created, result, run>>

\* Loop body, second await: suggestions, then the notification is built,
\* added to the session and counted
nightly_stage ==
    /\ pc = "suggest"
    /\ \E suggestions \in suggest_likely_cash_expenses(transactions, now, User, None, 90, 4) :
          staged' = Append(staged, Notification(User, cur[1], suggestions, run))
    /\ notifications_created' = notifications_created + 1
    /\ cur' = None
    /\ idx' = idx + 1
    /\ pc' = "loop"
    /\ UNCHANGED <<transactions, notifications, now, position, suggested, response, users, result, run, log>>

\* suggest_likely_cash_expenses or the construction of the notification
\* raises: caught, logged, next user
nightly_stage_raises ==
    /\ pc = "suggest"
    /\ log' = Raised(User)
    /\ cur' = None
    /\ idx' = idx + 1
    /\ pc' = "loop"
    /\ UNCHANGED <<transactions, notifications, now, position, suggested, response, users, staged,
                   notifications_created, result, run>>

\* Slip: the commit replaces the stored notifications by the staged ones
nightly_commit_replaces ==
    /\ pc = "loop"
    /\ idx = Len(users)
    /\ notifications' = staged
    /\ staged' = <<>>
    /\ result' = Some([success |-> TRUE, notifications_created |-> notifications_created,
                       checked_at |-> now])
    /\ pc' = "done"
    /\ UNCHANGED <<transactions, now, position, suggested, response, users, idx, cur,
                   notifications_created, run, log>>

\* After the loop: db.commit() writes the staged rows, the task returns
nightly_commit ==
    /\ pc = "loop"
    /\ idx = Len(users)
    /\ notifications' = notifications \o staged
    /\ staged' = <<>>
    /\ result' = Some([success |-> TRUE, notifications_created |-> notifications_created,
                       checked_at |-> now])
    /\ pc' = "done"
    /\ UNCHANGED <<transactions, now, position, suggested, response, users, idx, cur,
                   notifications_created, run, log>>

\* Slip: the rows are written although the task reports the failure
nightly_commit_raises_keeps ==
    /\ pc = "loop"
    /\ idx = Len(users)
    /\ notifications' = notifications \o staged
    /\ staged' = <<>>
    /\ result' = Some([success |-> FALSE, error |-> "commit"])
    /\ pc' = "done"
    /\ UNCHANGED <<transactions, now, position, suggested, response, users, idx, cur,
                   notifications_created, run, log>>

\* db.commit() raises: the session is closed without the rows, the outer
\* handler returns
nightly_commit_raises ==
    /\ pc = "loop"
    /\ idx = Len(users)
    /\ staged' = <<>>
    /\ result' = Some([success |-> FALSE, error |-> "commit"])
    /\ pc' = "done"
    /\ UNCHANGED <<transactions, notifications, now, position, suggested, response, users, idx, cur,
                   notifications_created, run, log>>

JobCreate ==
    /\ AddedRows < MaxJobTx
    /\ \E u \in ApiUsers, d \in JobTxRequests :
          create_transaction(u, d) /\ UNCHANGED response

JobQuickAdd ==
    /\ AddedRows < MaxJobTx
    /\ \E u \in ApiUsers, q \in JobQuickAddRequests :
          quick_add_cash_expense(u, q) /\ UNCHANGED response

Next ==
    \/ JobCreate
    \/ JobQuickAdd
    \/ nightly_list_users
    \/ nightly_list_users_raises
    \/ nightly_compute
    \/ nightly_compute_raises
    \/ nightly_stage
    \/ nightly_stage_raises
    \/ nightly_commit
    \/ nightly_commit_raises

Spec == Init /\ [][Next]_vars

-----------------------------------------------------------------------------
(* Properties of nightly_cash_check *)

Returned == pc = "done" /\ result # None
Succeeded == Returned /\ result[1].success
Failed == Returned /\ ~result[1].success

\* The policy of the job, as the specification words it
Qualifies(pos) == pos.eligible_for_nudge = TRUE /\ pos.estimated_untracked_cash >= 1000

\* The rows of list rows written for user u by run r
Written(rows, u, r) ==
    {i \in 1..Len(rows) : rows[i].user_id = u /\ rows[i].created_in = r}
WrittenBy(rows, r) == {i \in 1..Len(rows) : rows[i].created_in = r}

\* Users of the current run whose position was computed and passed the
\* policy, and whose processing did not raise
Served == {u \in DOMAIN log.computed : Qualifies(log.computed[u]) /\ u \notin log.raised}

\* C1: after a successful run every active user whose position passed the
\* policy and whose processing did not raise has exactly one cash_check
\* notification of this run, every other user has none, and
\* notifications_created is the number of rows the run persisted.
C1_OnePerServedUser ==
    Succeeded =>
        /\ \A u \in DOMAIN UserTable :
              LET mine == Written(notifications, u, run)
              IN  IF UserTable[u] /\ u \in Served
                  THEN /\ Cardinality(mine) = 1
                       /\ \A i \in mine : notifications[i].type = "cash_check"
                  ELSE mine = {}
        /\ result[1].notifications_created = Cardinality(WrittenBy(notifications, run))
        /\ (Cardinality({u \in DOMAIN UserTable : UserTable[u]}) = 3
             /\ Cardinality(Served) = 1)
               => result[1].notifications_created = 1

\* C1 witness: three active users were processed, one of them qualified
C1_Witness ==
    /\ Succeeded
    /\ Len(users) = 3
    /\ Cardinality(DOMAIN log.computed) = 3
    /\ Cardinality(Served) = 1
    /\ result[1].notifications_created = 1
    /\ Len(notifications) = 1

\* C2: every staged or persisted notification carries a position with
\* eligible_for_nudge and an estimate of at least 1000 (so with
\* days_since_withdrawal defined and at least 3); a user whose position
\* fails the policy gets no notification and no error.
C2_OnlyQualifyingPositions ==
    /\ \A i \in 1..Len(notifications) :
          LET pos == notifications[i].payload.cash_position
          IN  /\ pos.eligible_for_nudge = TRUE
              /\ pos.estimated_untracked_cash >= 1000
              /\ pos.days_since_withdrawal # None
              /\ pos.days_since_withdrawal[1] >= 3
    /\ \A u \in DOMAIN log.computed :
          ~Qualifies(log.computed[u]) =>
              /\ u \notin log.raised
              /\ Written(staged, u, run) = {}
              /\ Written(notifications, u, run) = {}

\* C2 witness: a successful run skipped a user with an estimate below
\* 1000 and a user that was not eligible, and notified a third
C2_Witness ==
    /\ Succeeded
    /\ \E u \in DOMAIN log.computed :
          /\ log.computed[u].eligible_for_nudge
          /\ log.computed[u].estimated_untracked_cash \in 1..999
    /\ \E u \in DOMAIN log.computed :
          /\ ~log.computed[u].eligible_for_nudge
          /\ log.computed[u].estimated_untracked_cash >= 1000
    /\ Cardinality(WrittenBy(notifications, run)) = 1

\* C3: an exception raised while one user is processed stays inside the
\* loop: the run still processes every listed user, fails only if the
\* commit fails, and on success has persisted the notification of every
\* other qualifying user.
C3_UserErrorIsIsolated ==
    (Returned /\ log.raised # {}) =>
        /\ idx = Len(users)
        /\ \A i \in 1..Len(users) : users[i] \in DOMAIN log.computed \cup log.raised
        /\ result[1].success \/ result[1].error = "commit"
        /\ result[1].success =>
              \A u \in Served : Cardinality(Written(notifications, u, run)) = 1

\* C3 witness: the first user raised, a later user was notified, success
C3_Witness ==
    /\ Succeeded
    /\ Len(users) = 3
    /\ users[1] \in log.raised
    /\ \E i \in 2..3 : users[i] \in Served /\ Written(notifications, users[i], run) # {}

\* C4: when listing the users or the commit raises, the task returns
\* success = false with an error and without notifications_created, and
\* nothing the run staged is persisted.
C4_OuterErrorAborts ==
    Failed =>
        /\ DOMAIN result[1] = {"success", "error"}
        /\ WrittenBy(notifications, run) = {}
        /\ staged = <<>>

\* C4 witness: the commit failed after a notification had been staged
C4_Witness ==
    /\ Failed
    /\ result[1].error = "commit"
    /\ notifications_created > 0

\* C4 witness: listing the users failed
C4_WitnessList ==
    /\ Failed
    /\ result[1].error = "select users"

\* C5: with quick-adds interleaving, a notification is persisted only while
\* its payload still shows the tracked cash spend of the user's stored
\* transactions, and never for a user whose untracked cash has dropped
\* below 1000.
C5_PersistedPositionIsCurrent ==
    [][\A i \in (Len(notifications) + 1)..Len(notifications') :
          \A pos \in compute_cash_position(transactions', now',
                                           notifications'[i].user_id, 30, 3) :
              /\ notifications'[i].payload.cash_position.tracked_cash_spend
                     = pos.tracked_cash_spend
              /\ pos.estimated_untracked_cash >= 1000]_vars

-----------------------------------------------------------------------------
(* Properties of compute_cash_position, stated over the dict a caller holds *)

Called == position # None
Ret == position[1].ret
MinDays == position[1].min_days_since_withdrawal

\* Sum of the amounts of the rows of bag b
RECURSIVE BagAmount(_)
BagAmount(b) ==
    IF b = EmptyBag THEN 0
    ELSE LET r == CHOOSE r \in BagToSet(b) : TRUE
         IN  r.amount * b[r] + BagAmount([q \in BagToSet(b) \ {r} |-> b[q]])

\* Rows of the caller's user dated on or after now - lookback_days: the
\* window of the position
Window ==
    Where(transactions, {r \in BagToSet(transactions) :
                            /\ r.user_id = Ret.user_id
                            /\ r.transaction_date >= now - Days(Ret.lookback_days)})
WindowWithdrawals == Where(Window, {r \in BagToSet(Window) : _is_cash_withdrawal(r)})
WindowCashSpends == Where(Window, {r \in BagToSet(Window) : _is_cash_spend(r)})

\* The rows user u posted
RowsOf(u) == Where(transactions, {r \in BagToSet(transactions) : r.user_id = u})
Posted(u, bodies) ==
    [r \in {Transaction(u, d.amount, d.transaction_type, d.category, d.subcategory,
                        d.tags, d.description, d.merchant_name, d.source,
                        d.transaction_date) : d \in bodies} |-> 1]

\* C6: every returned position has estimated_untracked_cash =
\* max(0, total_withdrawn - tracked_cash_spend), hence >= 0.
C6_EstimateIsClampedDifference ==
    Called =>
        /\ Ret.estimated_untracked_cash >= 0
        /\ Ret.total_withdrawn - Ret.tracked_cash_spend >= 0
               => Ret.estimated_untracked_cash = Ret.total_withdrawn - Ret.tracked_cash_spend
        /\ Ret.total_withdrawn - Ret.tracked_cash_spend < 0
               => Ret.estimated_untracked_cash = 0

\* C6 witness: a position whose tracked spend exceeds the withdrawals
C6_Witness ==
    /\ Called
    /\ Ret.tracked_cash_spend > Ret.total_withdrawn
    /\ Ret.estimated_untracked_cash = 0

\* C7: eligible_for_nudge is true exactly when the estimate is positive and
\* days_since_withdrawal is defined and at least min_days_since_withdrawal;
\* the 10000/1000 test data (withdrawal 5 days ago) is eligible for a
\* minimum of 3 and not for a minimum of 10.
C7_EligibleIff ==
    Called =>
        /\ Ret.eligible_for_nudge <=>
               /\ Ret.estimated_untracked_cash > 0
               /\ Ret.days_since_withdrawal # None
               /\ Ret.days_since_withdrawal[1] >= MinDays
        /\ (/\ Ret.user_id = "u1"
             /\ RowsOf("u1") = Posted("u1", {TestWithdrawal} \cup TestExpenses))
               => /\ MinDays = 3 => Ret.eligible_for_nudge
                  /\ MinDays = 10 => ~Ret.eligible_for_nudge

\* C7 witness: the test data evaluated with a minimum of 10 days
C7_Witness ==
    /\ Called
    /\ Ret.user_id = "u1"
    /\ RowsOf("u1") = Posted("u1", {TestWithdrawal} \cup TestExpenses)
    /\ MinDays = 10
    /\ Ret.estimated_untracked_cash = 9000
    /\ Ret.days_since_withdrawal = Some(5)
    /\ ~Ret.eligible_for_nudge

\* C8: no stored transaction is classified both as a cash withdrawal and as
\* a cash spend.
C8_NeverBoth ==
    \A r \in BagToSet(transactions) : ~(_is_cash_withdrawal(r) /\ _is_cash_spend(r))

\* C9: total_withdrawn is the sum of the amounts of the window's rows
\* classified as withdrawals, tracked_cash_spend the sum of those classified
\* as cash spends; the test data gives 10000, 1000 and 9000, a lone
\* withdrawal of 5000 gives 5000, 0 and 5000.
C9_Totals ==
    Called =>
        /\ Ret.total_withdrawn = BagAmount(WindowWithdrawals)
        /\ Ret.tracked_cash_spend = BagAmount(WindowCashSpends)
        /\ (/\ Ret.user_id = "u1"
             /\ RowsOf("u1") = Posted("u1", {TestWithdrawal} \cup TestExpenses))
               => /\ Ret.total_withdrawn = 10000
                  /\ Ret.tracked_cash_spend = 1000
                  /\ Ret.estimated_untracked_cash = 9000
        /\ (/\ Ret.user_id = "u1"
             /\ BagCardinality(RowsOf("u1")) = 1
             /\ \E r \in BagToSet(RowsOf("u1")) :
                    r.amount = 5000 /\ _is_cash_withdrawal(r))
               => /\ Ret.total_withdrawn = 5000
                  /\ Ret.tracked_cash_spend = 0
                  /\ Ret.estimated_untracked_cash = 5000

\* C9 witness: the test data, computed
C9_Witness ==
    /\ Called
    /\ Ret.user_id = "u1"
    /\ RowsOf("u1") = Posted("u1", {TestWithdrawal} \cup TestExpenses)
    /\ Ret.total_withdrawn = 10000
    /\ Ret.tracked_cash_spend = 1000

\* C10: last_withdrawal_date is the latest date among the window's
\* withdrawals and days_since_withdrawal the whole days from it to now,
\* 0 when it lies after now; without a withdrawal in the window both are
\* undefined and eligible_for_nudge is false.
C10_LastWithdrawal ==
    Called =>
        LET dates == {r.transaction_date : r \in BagToSet(WindowWithdrawals)}
        IN  IF dates = {}
            THEN /\ Ret.last_withdrawal_date = None
                 /\ Ret.days_since_withdrawal = None
                 /\ ~Ret.eligible_for_nudge
            ELSE /\ Ret.last_withdrawal_date # None
                 /\ Ret.last_withdrawal_date[1] \in dates
                 /\ \A d \in dates : d <= Ret.last_withdrawal_date[1]
                 /\ Ret.days_since_withdrawal # None
                 /\ LET elapsed == now - Ret.last_withdrawal_date[1]
                        days == Ret.days_since_withdrawal[1]
                    IN  /\ days >= 0
                        /\ elapsed < 0 => days = 0
                        /\ elapsed >= 0 =>
                               /\ days * TicksPerDay <= elapsed
                               /\ elapsed < (days + 1) * TicksPerDay

\* C10 witness: two withdrawals in the window, the later one a day and a
\* part old
C10_Witness ==
    /\ Called
    /\ Cardinality({r.transaction_date : r \in BagToSet(WindowWithdrawals)}) >= 2
    /\ Ret.last_withdrawal_date = Some(Now0 - Days(1) - 1)
    /\ Ret.days_since_withdrawal = Some(1)

\* C10 witness of the clamp: the latest withdrawal is dated after now
C10_WitnessClamp ==
    /\ Called
    /\ Ret.last_withdrawal_date # None
    /\ Ret.last_withdrawal_date[1] > now
    /\ Ret.days_since_withdrawal = Some(0)

-----------------------------------------------------------------------------
(* The windows and the totals of compute_cash_position, as specified *)

\* Rows of the caller's user dated within [now - lookback_days, now]
ClosedWindow ==
    Where(transactions, {r \in BagToSet(transactions) :
                            /\ r.user_id = Ret.user_id
                            /\ r.transaction_date >= now - Days(Ret.lookback_days)
                            /\ r.transaction_date <= now})

\* C11: compute_cash_position counts only the rows dated within
\* [now - lookback_days, now]: total_withdrawn and tracked_cash_spend are
\* the sums over the withdrawals and the cash spends of that closed window,
\* and a row dated after now adds to neither.
C11_PositionWindowIsClosed ==
    Called =>
        /\ Ret.total_withdrawn =
               BagAmount(Where(ClosedWindow,
                               {r \in BagToSet(ClosedWindow) : _is_cash_withdrawal(r)}))
        /\ Ret.tracked_cash_spend =
               BagAmount(Where(ClosedWindow,
                               {r \in BagToSet(ClosedWindow) : _is_cash_spend(r)}))

\* C12: every returned position has total_withdrawn >= 0 and
\* tracked_cash_spend >= 0, whatever the accepted creations and quick-adds
\* that came before.
C12_TotalsAreNonNegative ==
    Called => Ret.total_withdrawn >= 0 /\ Ret.tracked_cash_spend >= 0

-----------------------------------------------------------------------------
(* Properties of suggest_likely_cash_expenses, stated over the list a caller holds *)

Suggested == suggested # None
SRet == suggested[1].ret
SLimit == suggested[1].limit
STarget == IF suggested[1].target_date # None THEN suggested[1].target_date[1] ELSE now

\* The user's debits dated on or after target_date - history_days that are
\* cash spends: the history of the call
History ==
    Where(transactions, {r \in BagToSet(transactions) :
                            /\ r.user_id = suggested[1].user_id
                            /\ r.transaction_type = "debit"
                            /\ r.transaction_date >= STarget - Days(suggested[1].history_days)
                            /\ _is_cash_spend(r)})

\* The rows of the history that fall in bucket k, and the buckets
Bucket(k) == Where(History, {r \in BagToSet(History) : BucketKey(r) = k})
Buckets == {BucketKey(r) : r \in BagToSet(History)}

\* Accumulated weight of the rows of bag b, in tenths: 16 for a row on the
\* weekday of the target date, 10 for any other
RECURSIVE BagWeight(_)
BagWeight(b) ==
    IF b = EmptyBag THEN 0
    ELSE LET r == CHOOSE r \in BagToSet(b) : TRUE
             w == IF Weekday(r.transaction_date) = Weekday(STarget) THEN 16 ELSE 10
         IN  w * b[r] + BagWeight([q \in BagToSet(b) \ {r} |-> b[q]])

Weight(k) == BagWeight(Bucket(k))

\* The amount at index i (from 0) of the amounts of bag b in ascending order
AmountAt(b, i) ==
    CHOOSE v \in {r.amount : r \in BagToSet(b)} :
        /\ BagCardinality(Where(b, {r \in BagToSet(b) : r.amount < v})) <= i
        /\ i < BagCardinality(Where(b, {r \in BagToSet(b) : r.amount <= v}))

\* The index nearest to (n - 1) * quarters / 4, a half going to the even index
NearestRank(n, quarters) ==
    CHOOSE i \in 0..(n - 1) :
        LET d == 4 * i - (n - 1) * quarters
        IN  /\ d \in -2..2
            /\ (d = 2 \/ d = -2) => i % 2 = 0

\* The position at which bucket k is first seen in list txns
FirstSeen(txns, k) ==
    CHOOSE i \in 1..Len(txns) :
        /\ BucketKey(txns[i]) = k
        /\ \A j \in 1..(i - 1) : BucketKey(txns[j]) # k

\* The four fixed defaults
FixedDefaults ==
    <<[label |-> "Groceries", subcategory |-> "groceries", typical_amount |-> 500,
       amount_range |-> <<300, 700>>, probability |-> [num |-> 17, den |-> 50]],
      [label |-> "Food", subcategory |-> "food", typical_amount |-> 200,
       amount_range |-> <<120, 350>>, probability |-> [num |-> 7, den |-> 25]],
      [label |-> "Transport", subcategory |-> "transport", typical_amount |-> 100,
       amount_range |-> <<50, 200>>, probability |-> [num |-> 11, den |-> 50]],
      [label |-> "Misc", subcategory |-> "misc", typical_amount |-> 150,
       amount_range |-> <<80, 300>>, probability |-> [num |-> 4, den |-> 25]]>>

\* Sum of the probabilities of list l, as a pair <<numerator, denominator>>
RECURSIVE ProbabilitySum(_)
ProbabilitySum(l) ==
    IF l = <<>> THEN <<0, 1>>
    ELSE LET rest == ProbabilitySum(Tail(l))
             p == Head(l).probability
         IN  <<p.num * rest[2] + rest[1] * p.den, p.den * rest[2]>>

\* C11, for the suggestions: the returned list is a list the engine gives on
\* the rows dated up to the target date, so a row dated after the target
\* date adds to no bucket and no weight.
C11_SuggestionWindowIsClosed ==
    Suggested =>
        SRet \in suggest_likely_cash_expenses(
                     Where(transactions, {r \in BagToSet(transactions) :
                                             r.transaction_date <= STarget}),
                     now, suggested[1].user_id, suggested[1].target_date,
                     suggested[1].history_days, SLimit)

\* C13: the probabilities of every non-empty returned list sum to 1, with
\* or without history, for every limit >= 1.
C13_ProbabilitiesSumToOne ==
    (Suggested /\ SLimit >= 1 /\ SRet # <<>>) =>
        ProbabilitySum(SRet)[1] = ProbabilitySum(SRet)[2]

\* C14, as stated: without a cash spend in the history the call returns
\* exactly `limit` fixed defaults, and for limit = 4 the four of the list
\* in order.
C14_ExactlyLimitDefaults ==
    (Suggested /\ History = EmptyBag) =>
        /\ Len(SRet) = SLimit
        /\ \A i \in 1..Len(SRet) : i <= 4 /\ SRet[i] = FixedDefaults[i]
        /\ SLimit = 4 => SRet = FixedDefaults

\* C14, amended: without a cash spend in the history the call returns the
\* first min(limit, 4) of the four fixed defaults, in order; for limit = 4
\* these are Groceries 500 (300,700) 0.34, Food 200 (120,350) 0.28,
\* Transport 100 (50,200) 0.22 and Misc 150 (80,300) 0.16.
C14_FirstDefaults ==
    (Suggested /\ History = EmptyBag) =>
        /\ Len(SRet) = Min(SLimit, 4)
        /\ \A i \in 1..Len(SRet) : SRet[i] = FixedDefaults[i]
        /\ SLimit = 4 => SRet = FixedDefaults

\* C14 witness: a user without history asked for five suggestions and got
\* the four defaults
C14_Witness ==
    /\ Suggested
    /\ History = EmptyBag
    /\ SLimit = 5
    /\ SRet = FixedDefaults

\* C15: every returned suggestion has low <= typical_amount <= high.
C15_TypicalWithinRange ==
    Suggested =>
        \A i \in 1..Len(SRet) :
            /\ SRet[i].amount_range[1] <= SRet[i].typical_amount
            /\ SRet[i].typical_amount <= SRet[i].amount_range[2]

\* C16: with a non-empty history the probability of each returned
\* suggestion is the accumulated weight of its bucket divided by the sum of
\* the accumulated weights of the returned buckets.
C16_ProbabilityOverReturned ==
    (Suggested /\ History # EmptyBag) =>
        LET returned == {SRet[i].subcategory : i \in 1..Len(SRet)}
            total == BagWeight(Where(History,
                         {r \in BagToSet(History) : BucketKey(r) \in returned}))
        IN  \A i \in 1..Len(SRet) :
                SRet[i].probability.num * total
                    = SRet[i].probability.den * Weight(SRet[i].subcategory)

\* C16 witness: two of three buckets were returned, and the first has more
\* than its share of the weight of all three
C16_Witness ==
    /\ Suggested
    /\ Cardinality(Buckets) >= 3
    /\ SLimit = 2
    /\ Len(SRet) = 2
    /\ SRet[1].probability.num * BagWeight(History)
           > SRet[1].probability.den * Weight(SRet[1].subcategory)

\* C17: with a non-empty history the call returns min(limit, number of
\* buckets) suggestions, one per bucket, by accumulated weight descending
\* (16 tenths per transaction on the target's weekday, 10 per other), the
\* buckets of equal weight in the order in which the fetched list first
\* shows them; a bucket that is left out comes after every returned bucket
\* in that order.
C17_RankedByWeight ==
    (Suggested /\ History # EmptyBag) =>
        /\ Len(SRet) <= SLimit
        /\ Len(SRet) = Min(SLimit, Cardinality(Buckets))
        /\ \A i \in 1..Len(SRet) : SRet[i].subcategory \in Buckets
        /\ \A i, j \in 1..Len(SRet) : i # j => SRet[i].subcategory # SRet[j].subcategory
        /\ \E txns \in SuggestionQuery(transactions, suggested[1].user_id, STarget,
                                       suggested[1].history_days) :
              LET Before(a, b) ==
                      \/ Weight(a) > Weight(b)
                      \/ Weight(a) = Weight(b) /\ FirstSeen(txns, a) < FirstSeen(txns, b)
              IN  /\ \A i, j \in 1..Len(SRet) :
                         i < j => Before(SRet[i].subcategory, SRet[j].subcategory)
                  /\ \A i \in 1..Len(SRet) :
                         \A k \in Buckets \ {SRet[n].subcategory : n \in 1..Len(SRet)} :
                             Before(SRet[i].subcategory, k)

\* C17 witness: three suggestions, the first with a transaction on the
\* target's weekday, the other two of equal weight
C17_Witness ==
    /\ Suggested
    /\ Len(SRet) = 3
    /\ Weight(SRet[1].subcategory) % 10 = 6
    /\ Weight(SRet[2].subcategory) = Weight(SRet[3].subcategory)

\* C18: for a bucket of n amounts the typical amount is the amount at index
\* round(2(n-1)/4) of the ascending amounts, low the amount at index
\* round((n-1)/4) (at least 0) and high the amount at index round(3(n-1)/4)
\* (at least low), the index rounded to the nearest and a half to the even;
\* amounts 100, 200, 300, 400, 500 give 300 and (200, 400).
C18_NearestRankPercentiles ==
    (Suggested /\ History # EmptyBag) =>
        \A i \in 1..Len(SRet) :
            LET b == Bucket(SRet[i].subcategory)
                n == BagCardinality(b)
                p25 == AmountAt(b, NearestRank(n, 1))
                p50 == AmountAt(b, NearestRank(n, 2))
                p75 == AmountAt(b, NearestRank(n, 3))
            IN  /\ n >= 1
                /\ SRet[i].typical_amount = p50
                /\ SRet[i].amount_range[1] = Max(0, p25)
                /\ SRet[i].amount_range[2] = Max(Max(0, p25), p75)
                /\ n = 1 => p25 = p50 /\ p50 = p75
                /\ (n = 5 /\ {r.amount : r \in BagToSet(b)} = {100, 200, 300, 400, 500})
                       => /\ SRet[i].typical_amount = 300
                          /\ SRet[i].amount_range = <<200, 400>>

\* C18 witness: the bucket "groceries" holds 100, 200, 300, 400 and 500
C18_Witness ==
    /\ Suggested
    /\ \E i \in 1..Len(SRet) :
          /\ SRet[i].subcategory = "groceries"
          /\ BagCardinality(Bucket("groceries")) = 5
          /\ {r.amount : r \in BagToSet(Bucket("groceries"))} = {100, 200, 300, 400, 500}
          /\ SRet[i].typical_amount = 300
          /\ SRet[i].amount_range = <<200, 400>>

\* C18 witness of the half: of the two amounts 50 and 350 the typical one
\* is the first (index round(0.5) = 0)
C18_WitnessHalf ==
    /\ Suggested
    /\ \E i \in 1..Len(SRet) :
          /\ BagCardinality(Bucket(SRet[i].subcategory)) = 2
          /\ SRet[i].typical_amount = 50
          /\ SRet[i].amount_range = <<50, 350>>

-----------------------------------------------------------------------------
(* Properties of the classifier, stated over the stored transactions *)

\* The tags of row r contain tag
Tagged(r, tag) == r.tags # None /\ \E i \in 1..Len(r.tags[1]) : r.tags[1][i] = tag

\* The lower-cased texts of the fields, put together with a space between
Together(fields) ==
    JoinSpace([i \in 1..Len(fields) |-> Lower(OrEmpty(fields[i]))])

\* C19: _is_cash_withdrawal holds of a stored transaction exactly when it is
\* a debit and either carries the tag "cash_withdrawal" or its lower-cased
\* description, merchant name and merchant category together contain
\* "atm", "cash withdrawal", "withdrawal", "withdraw" or "cash withdraw";
\* it never holds of a credit.
C19_WithdrawalIff ==
    \A r \in BagToSet(transactions) :
        /\ _is_cash_withdrawal(r) <=>
               /\ r.transaction_type = "debit"
               /\ \/ Tagged(r, "cash_withdrawal")
                  \/ \E k \in {"atm", "cash withdrawal", "withdrawal", "withdraw",
                               "cash withdraw"} :
                         Contains(Together(<<r.description, r.merchant_name,
                                             r.merchant_category>>), k)
        /\ r.transaction_type = "credit" => ~_is_cash_withdrawal(r)

\* C19 witness: a debit recognised by its wording alone is stored with a
\* credit that carries the tag and the wording
C19_Witness ==
    /\ \E r \in BagToSet(transactions) :
          /\ r.transaction_type = "debit"
          /\ ~Tagged(r, "cash_withdrawal")
          /\ _is_cash_withdrawal(r)
    /\ \E r \in BagToSet(transactions) :
          /\ r.transaction_type = "credit"
          /\ Tagged(r, "cash_withdrawal")
          /\ ~_is_cash_withdrawal(r)
    /\ \E r \in BagToSet(transactions) :
          r.transaction_type = "debit" /\ ~_is_cash_withdrawal(r)

-----------------------------------------------------------------------------
(* The /cash-check endpoints as a client sees them *)

\* What the client receives: the status line and the JSON body
Response(endpoint, user, status, body) ==
    [endpoint |-> endpoint, user |-> user, status |-> status, body |-> body]

\* An exception no handler catches: FastAPI answers 500
InternalServerError(endpoint, user) ==
    Response(endpoint, user, 500, [detail |-> "Internal Server Error"])

\* An UpdateCashPositionRequest body
UpdateCashPositionRequest(amount_still_in_wallet, note) ==
    [amount_still_in_wallet |-> amount_still_in_wallet, note |-> note]

\* The suggestion dicts of the summary; round(s.probability, 2) in hundredths
SummarySuggestions(suggestions) ==
    [i \in 1..Len(suggestions) |->
        [label |-> suggestions[i].label,
         subcategory |-> suggestions[i].subcategory,
         typical_amount |-> suggestions[i].typical_amount,
         amount_range |-> [low |-> suggestions[i].amount_range[1],
                           high |-> suggestions[i].amount_range[2]],
         probability |-> Round(suggestions[i].probability.num * 100,
                               suggestions[i].probability.den)]]

\* The CashCheckResponse of the summary
CashCheckResponse(cash_position, suggestions, eligible_for_nudge) ==
    [cash_position |-> cash_position, suggestions |-> suggestions,
     eligible_for_nudge |-> eligible_for_nudge]

\* GET /cash-check/summary
get_cash_check_summary(current_user) ==
    /\ \E cash_position \in compute_cash_position(transactions, now, current_user, 30, 3) :
       \E suggestions \in suggest_likely_cash_expenses(transactions, now, current_user, None, 90, 4) :
          response' = Some(Response("summary", current_user, 200,
                               CashCheckResponse(cash_position,
                                                 SummarySuggestions(suggestions),
                                                 cash_position.eligible_for_nudge)))
    /\ UNCHANGED <<transactions, notifications, now, position, suggested, jobvars>>

\* GET /cash-check/summary while a query of the service raises: the
\* endpoint has no handler, the exception leaves it
get_cash_check_summary_raises(current_user) ==
    /\ response' = Some(InternalServerError("summary", current_user))
    /\ UNCHANGED <<transactions, notifications, now, position, suggested, jobvars>>

\* The dict quick-add returns after the commit
QuickAddResponse(current_user, request) ==
    Response("quick-add", current_user, 200,
             [success |-> TRUE,
              message |-> [text |-> "Added cash expense", amount |-> request.amount,
                           subcategory |-> request.subcategory]])

\* POST /cash-check/quick-add while db.commit() raises: nothing is stored,
\* the exception leaves the endpoint
quick_add_cash_expense_raises(current_user, request) ==
    /\ response' = Some(InternalServerError("quick-add", current_user))
    /\ UNCHANGED <<transactions, notifications, now, position, suggested, jobvars>>

\* Slip: the reported amount is stored as a cash expense
update_cash_still_in_wallet_logs(current_user, request) ==
    /\ transactions' = transactions (+) One(
           Transaction(current_user, request.amount_still_in_wallet, "debit", "other",
                       Some("wallet"), Some(<<"cash", "cash_spend">>),
                       request.note, None, "manual", now))
    /\ response' = Some(Response("still-have-cash", current_user, 200,
                            [success |-> TRUE,
                             message |-> [text |-> "Noted: You still have",
                                          amount |-> request.amount_still_in_wallet]]))
    /\ UNCHANGED <<notifications, now, position, suggested, jobvars>>

\* POST /cash-check/still-have-cash
update_cash_still_in_wallet(current_user, request) ==
    /\ response' = Some(Response("still-have-cash", current_user, 200,
                            [success |-> TRUE,
                             message |-> [text |-> "Noted: You still have",
                                          amount |-> request.amount_still_in_wallet]]))
    /\ UNCHANGED <<transactions, notifications, now, position, suggested, jobvars>>

\* Users that call the endpoints while they are explored, and the one of
\* them that also posts
ApiCallers == {"u1", "u2"}
ApiWriters == {"u1"}

\* Rows stored before the endpoints are explored: the withdrawal of
\* test_cash_check.create_test_data, made by u1
ApiInitialRows ==
    One(Transaction("u1", 10000, "debit", "other", None, Some(<<"cash_withdrawal">>),
                    Some("ATM Withdrawal"), Some("HDFC ATM"), "manual", Now0 - Days(5)))

ApiAddedRows == BagCardinality(transactions) - BagCardinality(ApiInitialRows)

\* The subcategories of the category table, as a client may write them
ApiSubcategories ==
    {"groceries", "food", "dining", "restaurant", "cafe",
     "transport", "fuel", "parking", "taxi", "uber",
     "shopping", "clothing", "entertainment", "movie", "games",
     "bills", "utilities", "rent", "electricity", "water",
     "Groceries", "UBER", "Movie", "RENT", " food", "misc", "foods"}

\* Bodies posted to /cash-check/quick-add while the endpoints are explored
ApiQuickAddRequests ==
    {QuickAddExpenseRequest(100, s, None, None) : s \in ApiSubcategories} \cup
    {\* the default description carries a withdrawal keyword
     QuickAddExpenseRequest(40, "ATM fee", None, None),
     \* an empty description falls back to the default one
     QuickAddExpenseRequest(150, "taxi", Some(""), Some(Now0 - Days(1))),
     \* the client's own wording
     QuickAddExpenseRequest(300, "food", Some("lunch after cash withdrawal"), Some(Now0 - Days(2))),
     QuickAddExpenseRequest(0, "misc", Some("nothing"), None),
     QuickAddExpenseRequest(-250, "misc", Some("refund"), Some(Now0 - Days(2))),
     \* dated before the lookback window
     QuickAddExpenseRequest(80, "fuel", None, Some(Now0 - Days(31)))}

\* A body posted to /cash-check/quick-add while the commit fails
ApiFailingRequests == {QuickAddExpenseRequest(100, "food", None, None)}

\* Bodies posted to /transactions while the endpoints are explored
ApiTxRequests ==
    {TransactionCreate(5000, "debit", None, None, None,
                       Some(<<"cash_withdrawal">>), Now0 - Days(1) - 1),
     TransactionCreate(9500, "debit", Some("Rent - cash"), None, Some("rent"),
                       Some(<<"cash", "cash_spend">>), Now0 - Days(3))}

\* Bodies posted to /cash-check/still-have-cash
ApiStillHaveCashRequests ==
    {UpdateCashPositionRequest(0, None), UpdateCashPositionRequest(2500, Some("in the drawer"))}

InitApi ==
    /\ transactions = ApiInitialRows
    /\ notifications = <<>>
    /\ now = Now0
    /\ position = None
    /\ suggested = None
    /\ response = None
    /\ pc = "idle"
    /\ users = <<>>
    /\ idx = 0
    /\ cur = None
    /\ staged = <<>>
    /\ notifications_created = 0
    /\ result = NoResult
    /\ run = 0
    /\ log = NoLog

ApiCreate ==
    /\ ApiAddedRows < MaxApiTx
    /\ \E u \in ApiWriters, d \in ApiTxRequests :
          /\ create_transaction(u, d)
          /\ response' = Some(Response("transactions", u, 201, d))

ApiQuickAdd ==
    /\ ApiAddedRows < MaxApiTx
    /\ \E u \in ApiWriters, q \in ApiQuickAddRequests :
          /\ quick_add_cash_expense(u, q)
          /\ response' = Some(QuickAddResponse(u, q))

ApiQuickAddRaises ==
    \E u \in ApiCallers, q \in ApiFailingRequests : quick_add_cash_expense_raises(u, q)

ApiSummary == \E u \in ApiCallers : get_cash_check_summary(u)

ApiSummaryRaises == \E u \in ApiCallers : get_cash_check_summary_raises(u)

ApiStillHaveCash ==
    \E u \in ApiCallers, q \in ApiStillHaveCashRequests : update_cash_still_in_wallet(u, q)

NextApi ==
    \/ ApiCreate
    \/ ApiQuickAdd
    \/ ApiQuickAddRaises
    \/ ApiSummary
    \/ ApiSummaryRaises
    \/ ApiStillHaveCash

SpecApi == InitApi /\ [][NextApi]_vars

-----------------------------------------------------------------------------
(* Properties of the /cash-check endpoints *)

Answered(endpoint, status) ==
    /\ response # None
    /\ response[1].endpoint = endpoint
    /\ response[1].status = status

\* The step just taken answered this endpoint with this status
Answers(endpoint, status) ==
    /\ response' # None
    /\ response'[1].endpoint = endpoint
    /\ response'[1].status = status

\* The row a step added to "transactions" (when it added one)
AddedRow ==
    CHOOSE r \in BagToSet(transactions') :
        CopiesIn(r, transactions') > CopiesIn(r, transactions)

\* The keyword table of the quick-add contract
KeywordTable ==
    [essentials |-> {"groceries", "food", "dining", "restaurant", "cafe"},
     needs      |-> {"transport", "fuel", "parking", "taxi", "uber"},
     spends     |-> {"shopping", "clothing", "entertainment", "movie", "games"},
     bills      |-> {"bills", "utilities", "rent", "electricity", "water"}]

\* The category the contract gives a subcategory, letters compared without case
ContractCategory(subcategory) ==
    IF \E c \in DOMAIN KeywordTable : Lower(subcategory) \in KeywordTable[c]
    THEN CHOOSE c \in DOMAIN KeywordTable : Lower(subcategory) \in KeywordTable[c]
    ELSE "other"

\* C21: every successful quick-add stores exactly one row: a debit of the
\* caller, tagged ["cash", "cash_spend"], carrying the subcategory of the
\* request and the category the keyword table gives that subcategory
\* compared without case (anything outside the table gives "other").
C21_QuickAddPersistsOneCashDebit ==
    [][Answers("quick-add", 200) =>
          \E r \in BagToSet(transactions') :
              /\ transactions' = transactions (+) One(r)
              /\ r.user_id = response'[1].user
              /\ r.transaction_type = "debit"
              /\ r.tags = Some(<<"cash", "cash_spend">>)
              /\ r.subcategory = Some(response'[1].body.message.subcategory)
              /\ r.amount = response'[1].body.message.amount
              /\ r.category = ContractCategory(response'[1].body.message.subcategory)]_vars

\* C21 witness: a quick-add for "UBER" succeeded and its row is stored
\* under "needs"; one for " food" is stored under "other"
C21_Witness ==
    /\ Answered("quick-add", 200)
    /\ response[1].body.message.subcategory = "UBER"
    /\ \E r \in BagToSet(transactions) :
          /\ r.user_id = response[1].user
          /\ r.subcategory = Some("UBER")
          /\ r.category = "needs"
          /\ r.tags = Some(<<"cash", "cash_spend">>)

\* C24: the summary and the quick-add endpoint never answer with a 5xx
\* status; a failure inside shows as a 200 with zero suggestions and zero
\* untracked cash.
C24_NoServerError ==
    (response # None /\ response[1].endpoint \in {"summary", "quick-add"})
        => response[1].status < 500

\* Whether a date lies in the lookback window of the nightly job and the summary
InLookback(date) == date >= now - Days(30) /\ date <= now

\* C27: a successful quick-add of an amount a >= 0 dated inside the
\* lookback window raises tracked_cash_spend of the caller's position by
\* exactly a and leaves total_withdrawn as it was.
C27_QuickAddRaisesTrackedSpendOnly ==
    [][(/\ Answers("quick-add", 200)
        /\ transactions' # transactions
        /\ AddedRow.amount >= 0
        /\ InLookback(AddedRow.transaction_date)) =>
          \A before \in compute_cash_position(transactions, now, response'[1].user, 30, 3) :
          \A after \in compute_cash_position(transactions', now', response'[1].user, 30, 3) :
              /\ after.tracked_cash_spend = before.tracked_cash_spend + AddedRow.amount
              /\ after.total_withdrawn = before.total_withdrawn]_vars

-----------------------------------------------------------------------------
(* Algebraic properties of compute_cash_position *)

\* Pairs of stored rows of one user that the query may return in either order
TiedRows(u) ==
    {pair \in BagToSet(transactions) \X BagToSet(transactions) :
        /\ pair[1].user_id = u
        /\ pair[2].user_id = u
        /\ pair[1] # pair[2]
        /\ pair[1].transaction_date = pair[2].transaction_date}

C28_EstimateIsMonotone ==
    [][(/\ transactions' # transactions
        /\ now' = now
        /\ AddedRow.amount >= 0
        /\ InLookback(AddedRow.transaction_date)
        /\ (_is_cash_spend(AddedRow) \/ _is_cash_withdrawal(AddedRow))) =>
          \A before \in compute_cash_position(transactions, now, AddedRow.user_id, 30, 3) :
          \A after \in compute_cash_position(transactions', now', AddedRow.user_id, 30, 3) :
              /\ _is_cash_spend(AddedRow) =>
                    after.estimated_untracked_cash <= before.estimated_untracked_cash
              /\ _is_cash_withdrawal(AddedRow) =>
                    after.estimated_untracked_cash >= before.estimated_untracked_cash]_vars

\* C28 witness: a position in which the tracked cash spends exceed the
\* withdrawals, so that the estimate rests at zero
C28_Witness ==
    /\ Called
    /\ Ret.total_withdrawn > 0
    /\ Ret.tracked_cash_spend > Ret.total_withdrawn
    /\ Ret.estimated_untracked_cash = 0
    /\ \E r \in BagToSet(Window) : _is_cash_spend(r) /\ ~_is_cash_withdrawal(r) /\ r.amount > 0

-----------------------------------------------------------------------------
(* nightly_cash_check night after night *)

\* Rows stored before the first night: withdrawals of 10000 made 2 days
\* ago by u1 and 29 days ago by u2, and the one of the deactivated user
NightInitialRows ==
    InitialRows
    (+) One(Transaction("u1", 10000, "debit", "other", None, Some(<<"cash_withdrawal">>),
                        Some("ATM Withdrawal"), Some("HDFC ATM"), "manual", Now0 - Days(2)))
    (+) One(Transaction("u2", 10000, "debit", "other", None, Some(<<"cash_withdrawal">>),
                        Some("ATM Withdrawal"), Some("HDFC ATM"), "manual", Now0 - Days(29)))

NightAddedRows == BagCardinality(transactions) - BagCardinality(NightInitialRows)

\* The user that posts between the runs, the body, and the user that
\* opens the notifications
NightWriters == {"u3"}
NightTxRequests ==
    {TransactionCreate(5000, "debit", None, None, None,
                       Some(<<"cash_withdrawal">>), Now0 - Days(2))}
NightReaders == {"u2"}

InitNight ==
    /\ transactions = NightInitialRows
    /\ notifications = <<>>
    /\ now = Now0
    /\ position = None
    /\ suggested = None
    /\ response = None
    /\ pc = "idle"
    /\ users = <<>>
    /\ idx = 0
    /\ cur = None
    /\ staged = <<>>
    /\ notifications_created = 0
    /\ result = NoResult
    /\ run = 0
    /\ log = NoLog

\* POST /cash-check/notifications/{notification_id}/mark-read (the id is
\* the position of the row); a row of another user is not found
mark_notification_read(current_user, notification_id) ==
    /\ notification_id \in 1..Len(notifications)
    /\ notifications[notification_id].user_id = current_user
    /\ notifications' = [notifications EXCEPT ![notification_id].is_read = TRUE]
    /\ position' = position
    /\ suggested' = suggested
    /\ UNCHANGED <<transactions, now, jobvars>>

\* datetime.utcnow() moves on between two runs of the task
Tick ==
    /\ pc \in {"idle", "done"}
    /\ now < Now0 + Days(MaxDays)
    /\ now' = now + 1
    /\ UNCHANGED <<transactions, notifications, position, suggested, response, jobvars>>

\* The task does not read "notifications" and takes far less than a tick:
\* posts and reads are placed between its runs
NightCreate ==
    /\ pc \in {"idle", "done"}
    /\ NightAddedRows < MaxNightTx
    /\ \E u \in NightWriters, d \in NightTxRequests :
          create_transaction(u, d) /\ UNCHANGED response

NightMarkRead ==
    /\ pc \in {"idle", "done"}
    /\ \E u \in NightReaders, i \in 1..Len(notifications) :
          mark_notification_read(u, i) /\ UNCHANGED response

NightListUsers == list_users(MaxNights)
NightListUsersRaises == list_users_raises(MaxNights)

NextNight ==
    \/ NightCreate
    \/ NightMarkRead
    \/ Tick
    \/ NightListUsers
    \/ NightListUsersRaises
    \/ nightly_compute
    \/ nightly_compute_raises
    \/ nightly_stage
    \/ nightly_stage_raises
    \/ nightly_commit
    \/ nightly_commit_raises

SpecNight == InitNight /\ [][NextNight]_vars

-----------------------------------------------------------------------------
(* Properties of nightly_cash_check over several nights *)

\* The step just taken is a step of the task
JobStep == jobvars' # jobvars

\* The step just taken is the commit of a run that reports success
CommitStep ==
    /\ pc = "loop"
    /\ pc' = "done"
    /\ result' # None
    /\ result'[1].success

\* Rows of a list of notifications that belong to user u
NotificationsOf(rows, u) == {i \in 1..Len(rows) : rows[i].user_id = u}

\* C22: no step of the nightly job (and so neither compute_cash_position
\* nor suggest_likely_cash_expenses, which it calls) creates, changes or
\* deletes a transaction, and all it does to "notifications" is append
\* new unread cash_check rows of the current run.
C22_JobOnlyAppendsNotifications ==
    [][JobStep =>
          /\ transactions' = transactions
          /\ Len(notifications') >= Len(notifications)
          /\ SubSeq(notifications', 1, Len(notifications)) = notifications
          /\ \A i \in (Len(notifications) + 1)..Len(notifications') :
                /\ notifications'[i].type = "cash_check"
                /\ notifications'[i].is_read = FALSE
                /\ notifications'[i].created_in = run]_vars

\* C22 witness: a second run has committed rows of its own behind the
\* rows of the first, one of which was read meanwhile, while a user
\* posted a transaction
C22_Witness ==
    /\ Succeeded
    /\ run = 2
    /\ WrittenBy(notifications, 1) # {}
    /\ WrittenBy(notifications, 2) # {}
    /\ \E i \in WrittenBy(notifications, 1) : notifications[i].is_read
    /\ NightAddedRows > 0

\* C26: the commit of a successful run adds exactly one notification for
\* every user that passed the policy in that run (and whose processing
\* did not raise) and none for anyone else, whatever notifications the
\* user already has and whether they were read.
C26_NoDeduplicationAcrossRuns ==
    [][CommitStep =>
          \A u \in DOMAIN UserTable :
              Cardinality(NotificationsOf(notifications', u)) =
                  Cardinality(NotificationsOf(notifications, u))
                  + (IF u \in Served THEN 1 ELSE 0)]_vars

\* C26 witness: after two successful runs u2 holds two notifications, the
\* one of the first run still unread
C26_Witness ==
    /\ Succeeded
    /\ run = 2
    /\ \E i \in Written(notifications, "u2", 1) : ~notifications[i].is_read
    /\ Written(notifications, "u2", 2) # {}
    /\ Cardinality(NotificationsOf(notifications, "u2")) = 2

\* The stored withdrawals of user u, in the window or not
StoredWithdrawals(u) ==
    {r \in BagToSet(transactions) : r.user_id = u /\ _is_cash_withdrawal(r)}

\* The age in whole days of the latest stored withdrawal of user u
LatestWithdrawalAge(u) ==
    LET latest == CHOOSE d \in {r.transaction_date : r \in StoredWithdrawals(u)} :
                      \A r \in StoredWithdrawals(u) : r.transaction_date <= d
    IN  (now - latest) \div TicksPerDay

\* days_since_withdrawal of a position lies in 0..lookback_days when defined
DaysWithinLookback(pos) ==
    pos.days_since_withdrawal # None =>
        /\ pos.days_since_withdrawal[1] >= 0
        /\ pos.days_since_withdrawal[1] <= pos.lookback_days

\* C29: every position the job computes or stores in a notification has
\* days_since_withdrawal in 0..lookback_days when it is defined, and the
\* job passes a user on to a notification only while the user's latest
\* stored withdrawal is between 3 and 30 whole days old.
C29_NudgedOnlyBetween3And30Days ==
    /\ [](\A u \in DOMAIN log.computed : DaysWithinLookback(log.computed[u]))
    /\ [](\A i \in 1..Len(notifications) :
             DaysWithinLookback(notifications[i].payload.cash_position))
    /\ [][(pc = "loop" /\ pc' = "suggest") =>
             /\ StoredWithdrawals(User) # {}
             /\ LatestWithdrawalAge(User) >= 3
             /\ LatestWithdrawalAge(User) <= 30]_vars

\* C29 witness: u2, nudged by the first run when the withdrawal was 29
\* or 30 days old, is passed over by the second run, which finds no
\* withdrawal in the window although one is stored; u1, too early for
\* the first run, is nudged by the second
C29_Witness ==
    /\ Succeeded
    /\ run = 2
    /\ Written(notifications, "u2", 1) # {}
    /\ Written(notifications, "u2", 2) = {}
    /\ "u2" \in DOMAIN log.computed
    /\ log.computed["u2"].days_since_withdrawal = None
    /\ LatestWithdrawalAge("u2") > 30
    /\ Written(notifications, "u1", 1) = {}
    /\ Written(notifications, "u1", 2) # {}

====
